---------------------------- MODULE Spec2Model ----------------------------
(***************************************************************************)
(* Model of the banker REST server (banker_api_server.py) and of the       *)
(* negotiation pipeline it calls (metta/utils.py).                         *)
(*                                                                         *)
(* Each REST handler is a coroutine without any await in its body, so the  *)
(* event loop runs it to completion before the next request: one action    *)
(* per handler.  Python's None is the empty tuple, Some(v) is <<v>>.       *)
(* Text is a tuple of one-character strings, so that `in`, lower(),        *)
(* upper() and strip() are computed and not assumed.  Timestamps are left  *)
(* out of the journal entries.  Response objects are modelled by the       *)
(* keyword arguments the handlers pass to them.                            *)
(*                                                                         *)
(* Four specifications:  Spec is the server, one request per step;         *)
(* PipelineSpec is the pipeline called directly on one set of arguments;   *)
(* TurnSpec is the server with a chat turn split at the blocking call to   *)
(* the collaborator, with weak fairness of the handler's own step;         *)
(* AgentSpec is the chat-protocol handler of agent.py on one ChatMessage.  *)
(***************************************************************************)
EXTENDS Integers, Sequences, FiniteSets, TLC

(***************************************************************************)
(* Bounds of the model.                                                    *)
(***************************************************************************)
\* most requests served in one run
MaxRequests == 3

None == << >>
Some(v) == <<v>>

(***************************************************************************)
(* The state of the process: the module-level objects of                   *)
(* banker_api_server.py, and the call in progress.                         *)
(***************************************************************************)
VARIABLES
    active_games,   \* game id -> game state (dict active_games)
    game_messages,  \* game id -> journal (dict game_messages)
    resp,           \* the response returned by the last request
    requests,       \* number of requests served so far
    pending,        \* the chat turn the event loop is running, if any
    query,          \* the arguments of a direct call of the pipeline
    result,         \* what that call returned
    rag,            \* the knowledge store of the process (global rag)
    chat            \* the ChatMessage handle_message works on, and what it sent

vars == <<active_games, game_messages, resp, requests, pending, query, result, rag,
          chat>>

\* the knowledge store as initialize_banker_knowledge fills it
InitialKnowledge == "initial"

(***************************************************************************)
(* Text helpers: str.lower, str.upper, str.strip, `phrase in text`.        *)
(***************************************************************************)
LowerChar(c) ==
    CASE c = "A" -> "a" [] c = "C" -> "c" [] c = "D" -> "d" [] c = "E" -> "e"
      [] c = "F" -> "f" [] c = "I" -> "i" [] c = "N" -> "n" [] c = "O" -> "o"
      [] c = "R" -> "r" [] c = "S" -> "s" [] c = "T" -> "t" [] c = "V" -> "v"
      [] c = "Y" -> "y" [] c = "M" -> "m" [] c = "B" -> "b" [] c = "W" -> "w"
      [] OTHER -> c

UpperChar(c) ==
    CASE c = "a" -> "A" [] c = "c" -> "C" [] c = "d" -> "D" [] c = "e" -> "E"
      [] c = "f" -> "F" [] c = "i" -> "I" [] c = "n" -> "N" [] c = "o" -> "O"
      [] c = "r" -> "R" [] c = "s" -> "S" [] c = "t" -> "T" [] c = "v" -> "V"
      [] c = "y" -> "Y" [] c = "m" -> "M" [] c = "b" -> "B" [] c = "w" -> "W"
      [] OTHER -> c

Lower(s) == [i \in 1..Len(s) |-> LowerChar(s[i])]

Upper(s) == [i \in 1..Len(s) |-> UpperChar(s[i])]

IsSpace(c) == c \in {" ", "\n", "\t"}

RECURSIVE LStrip(_)
LStrip(s) == IF s # << >> /\ IsSpace(Head(s)) THEN LStrip(Tail(s)) ELSE s

RECURSIVE RStrip(_)
RStrip(s) ==
    IF s # << >> /\ IsSpace(s[Len(s)]) THEN RStrip(SubSeq(s, 1, Len(s) - 1)) ELSE s

Strip(s) == RStrip(LStrip(s))

\* Python's `p in s` on strings
Contains(s, p) ==
    \E i \in 0..(Len(s) - Len(p)) : SubSeq(s, i + 1, i + Len(p)) = p


(***************************************************************************)
(* The external text-generation collaborator (LLM.create_completion) and   *)
(* the classifiers of the rag object: what they may answer in one request. *)
(***************************************************************************)
\* answers of the intent classification call (ai_decide_response_type)
ClassifierAnswers ==
    { <<"O","F","F","E","R">>,
      <<" ","o","f","f","e","r","\n">>,
      <<"C","O","N","V","E","R","S","A","T","I","O","N">>,
      <<"M","A","Y","B","E">>,
      <<"O","F","F","E","R"," ","N","O","W">>,
      << >> }

\* labels rag.analyze_user_behavior may return; "excited" is an unknown label
Sentiments == {"confident", "desperate", "aggressive", "neutral", "excited"}

VarianceClasses == {"high", "medium", "low"}

\* number the generator may echo in the "offer" field of its JSON line
EchoedOffers == {50000}

\* shapes of the generator's offer line (generate_banker_response)
GeneratorAnswers ==
    [raises : {FALSE}, kind : {"object"}, offer : EchoedOffers]
      \cup [raises : {FALSE},
            kind : {"object_no_message", "not_object", "not_json"},
            offer : {0}]
      \cup [raises : {TRUE}, kind : {"none"}, offer : {0}]

OFFER == <<"O","F","F","E","R">>
CONVERSATION == <<"C","O","N","V","E","R","S","A","T","I","O","N">>

\* a decision that looks for the keyword anywhere in the answer
ai_decide_by_keyword(response) ==
    IF Contains(Upper(Strip(response)), OFFER) THEN OFFER ELSE CONVERSATION

\* a decision that turns to OFFER once the knowledge store has seen an offer
ai_decide_from_history(response) ==
    IF rag # InitialKnowledge THEN OFFER
    ELSE IF Upper(Strip(response)) = OFFER THEN OFFER ELSE CONVERSATION

\* metta/utils.py ai_decide_response_type, after the completion returned
ai_decide_response_type(response) ==
    LET decision == Upper(Strip(response))
    IN  IF decision \notin {OFFER, CONVERSATION} THEN CONVERSATION ELSE decision

(***************************************************************************)
(* Offer calculation (rag.calculate_base_offer).  Multipliers are kept in  *)
(* hundredths; the expected value is the pair <<sum, count>>.              *)
(***************************************************************************)
RECURSIVE SumSeq(_)
SumSeq(s) == IF s = << >> THEN 0 ELSE Head(s) + SumSeq(Tail(s))

ExpectedValue(remaining) == <<SumSeq(remaining), Len(remaining)>>

\* the house-edge atoms with the early and the late multiplier exchanged
house_edge_exchanged(band) ==
    CASE band = "early_round" -> 85
      [] band = "mid_round" -> 75
      [] band = "late_round" -> 65

\* knowledge.py: the atoms (house_edge <band> <multiplier>)
house_edge(band) ==
    CASE band = "early_round" -> 65
      [] band = "mid_round" -> 75
      [] band = "late_round" -> 85

\* the band of a round: 1-2 early, 3-4 mid, 5+ late; a round below 1 takes
\* the mid-round default
RoundBand(round_num) ==
    IF round_num \in 1..2 THEN "early_round"
    ELSE IF round_num >= 5 THEN "late_round"
    ELSE "mid_round"

HouseEdgeMultiplier(round_num) == house_edge(RoundBand(round_num))

\* the sentiment atoms with desperate and aggressive exchanged
sentiment_multiplier_exchanged(label) ==
    CASE label = "confident" -> 105
      [] label = "desperate" -> 90
      [] label = "neutral" -> 100
      [] label = "aggressive" -> 95

\* knowledge.py: the atoms (sentiment_multiplier <label> <multiplier>)
sentiment_multiplier(label) ==
    CASE label = "confident" -> 105
      [] label = "desperate" -> 95
      [] label = "neutral" -> 100
      [] label = "aggressive" -> 90

KnownSentiments == {"confident", "desperate", "neutral", "aggressive"}

\* a label without an atom takes the multiplier of neutral
SentimentMultiplier(sentiment) ==
    IF sentiment \in KnownSentiments THEN sentiment_multiplier(sentiment)
    ELSE sentiment_multiplier("neutral")

VarianceMultiplier(variance) ==
    CASE variance = "high" -> 90
      [] variance = "low" -> 105
      [] OTHER -> 100

\* round(total * p / (n * 10^6)), half to even, computed in thousands so
\* that no intermediate product leaves the 32-bit range
RoundedProduct(total, n, p) ==
    LET s1 == total \div 1000
        s0 == total % 1000
        p1 == p \div 1000
        p0 == p % 1000
        c  == s0 * p0
        b  == s1 * p0 + s0 * p1 + (c \div 1000)
        a  == s1 * p1 + (b \div 1000)
        low == (b % 1000) * 1000 + (c % 1000)
        q  == a \div n
        r2 == 2 * ((a % n) * 1000000 + low)
        d  == n * 1000000
    IN  IF r2 > d THEN q + 1
        ELSE IF r2 < d THEN q
        ELSE IF q % 2 = 0 THEN q ELSE q + 1

\* a clamp that stops at the expected value itself
ClampOfferAtEV(raw, total, n) ==
    LET capped == IF raw * n >= total THEN total \div n ELSE raw
    IN  IF capped < 1 THEN 1 ELSE capped

\* an offer at or above the expected value is clamped to EV - 1, floored at 1
ClampOffer(raw, total, n) ==
    LET below == (total \div n) - 1
        capped == IF raw * n >= total THEN below ELSE raw
    IN  IF capped < 1 THEN 1 ELSE capped

\* a calculation that answers an empty remaining set with the offer 0
calculate_offer_of_nothing(remaining_cards, round_num, sentiment, variance) ==
    LET ev == IF remaining_cards = << >> THEN <<0, 1>>
              ELSE ExpectedValue(remaining_cards)
        p  == HouseEdgeMultiplier(round_num) * SentimentMultiplier(sentiment)
                * VarianceMultiplier(variance)
    IN  [raises |-> FALSE,
         offer |-> IF remaining_cards = << >> THEN 0
                   ELSE ClampOffer(RoundedProduct(ev[1], ev[2], p), ev[1], ev[2]),
         expectedValue |-> ev,
         houseEdge |-> 100 - HouseEdgeMultiplier(round_num)]

calculate_base_offer(remaining_cards, round_num, sentiment, variance) ==
    IF remaining_cards = << >>
    THEN [raises |-> TRUE, offer |-> 0, expectedValue |-> <<0, 0>>, houseEdge |-> 0]
    ELSE LET ev == ExpectedValue(remaining_cards)
             p  == HouseEdgeMultiplier(round_num) * SentimentMultiplier(sentiment)
                     * VarianceMultiplier(variance)
         IN  [raises |-> FALSE,
              offer |-> ClampOffer(RoundedProduct(ev[1], ev[2], p), ev[1], ev[2]),
              expectedValue |-> ev,
              houseEdge |-> 100 - HouseEdgeMultiplier(round_num)]


(***************************************************************************)
(* What the collaborators answer during one request.  Only the calls the   *)
(* request actually makes are varied.                                      *)
(***************************************************************************)
NoLine == [raises |-> FALSE, kind |-> "none", offer |-> 0]

LLMBehaviours ==
    { [classify |-> [raises |-> TRUE, text |-> << >>], sentiment |-> "neutral",
       variance |-> "medium", offer_line |-> NoLine, conversation_raises |-> FALSE] }
      \cup
    { [classify |-> [raises |-> FALSE, text |-> a], sentiment |-> "neutral",
       variance |-> "medium", offer_line |-> NoLine, conversation_raises |-> c] :
         a \in {x \in ClassifierAnswers : ai_decide_response_type(x) = CONVERSATION},
         c \in BOOLEAN }
      \cup
    { [classify |-> [raises |-> FALSE, text |-> b[1]], sentiment |-> b[2],
       variance |-> b[3], offer_line |-> b[4], conversation_raises |-> FALSE] :
         b \in {x \in ClassifierAnswers : ai_decide_response_type(x) = OFFER}
                 \X Sentiments \X VarianceClasses \X GeneratorAnswers }

\* the behaviours the server runs are checked with: the collaborator raises,
\* answers CONVERSATION, or answers OFFER with a well-formed offer line under
\* one of two sentiments
ServerBehaviours ==
    { llm \in LLMBehaviours :
        /\ llm.classify.text \in {OFFER, CONVERSATION, << >>}
        /\ (llm.classify.text = << >> => llm.classify.raises)
        /\ ~llm.conversation_raises
        /\ llm.sentiment \in {"neutral", "aggressive"}
        /\ llm.variance = "medium"
        /\ llm.offer_line.kind \in {"none", "object"} }

NoGameState == [round |-> 0, expected_value |-> None, house_edge |-> None,
                sentiment |-> ""]

\* the exception a call leaves with; cause is what str(e) tells the handler
Raised(cause) ==
    [raises |-> TRUE, cause |-> cause, offer |-> None, humanized_answer |-> "",
     game_state |-> NoGameState, rag_update |-> None]

\* rag.update_game_state: the knowledge store of the process after the call;
\* of what the call writes the model keeps only that the store is no longer
\* the initial one
rag_update_game_state(round_num, remaining_cards, burnt_cards, offer) == "updated"

\* an exception raised after rag.update_game_state has run
RaisedAfterUpdate(cause, update) == [Raised(cause) EXCEPT !.rag_update = Some(update)]

\* metta/utils.py generate_banker_response: the parsed JSON value, or the
\* canned line when the completion is not JSON
generate_banker_response(offer_data, line) ==
    CASE line.raises ->
           [raises |-> TRUE, is_dict |-> FALSE, has_message |-> FALSE,
            message |-> "", offer |-> 0]
      [] line.kind = "not_json" ->
           [raises |-> FALSE, is_dict |-> TRUE, has_message |-> TRUE,
            message |-> "canned", offer |-> offer_data.offer]
      [] line.kind = "object" ->
           [raises |-> FALSE, is_dict |-> TRUE, has_message |-> TRUE,
            message |-> "generated", offer |-> line.offer]
      [] line.kind = "object_no_message" ->
           [raises |-> FALSE, is_dict |-> TRUE, has_message |-> FALSE,
            message |-> "", offer |-> line.offer]
      [] OTHER ->
           [raises |-> FALSE, is_dict |-> FALSE, has_message |-> FALSE,
            message |-> "", offer |-> 0]

\* the decision for each answer of the classifier, computed once
decisions == [response \in ClassifierAnswers |-> ai_decide_response_type(response)]

\* an offer line that keeps the number the generator echoed
echoed_offer(generated, offer_data) == generated

\* metta/utils.py line 215: banker_response['offer'] = offer_data['offer']
authoritative_offer(generated, offer_data) ==
    [generated EXCEPT !.offer = offer_data.offer]

\* metta/utils.py process_banker_query
process_banker_query(user_message, remaining_cards, burnt_cards, round_num, llm) ==
    IF llm.classify.raises THEN Raised("collaborator")
    ELSE IF decisions[llm.classify.text] = OFFER
    THEN LET offer_data == calculate_base_offer(remaining_cards, round_num,
                                                llm.sentiment, llm.variance)
         IN  IF offer_data.raises THEN Raised("InvalidState")
             ELSE LET update == rag_update_game_state(round_num, remaining_cards,
                                                      burnt_cards, offer_data.offer)
                      generated == generate_banker_response(offer_data, llm.offer_line)
                      banker_response == authoritative_offer(generated, offer_data)
                  IN  IF generated.raises THEN RaisedAfterUpdate("collaborator", update)
                      ELSE IF ~generated.is_dict THEN RaisedAfterUpdate("TypeError", update)
                      ELSE IF ~generated.has_message THEN RaisedAfterUpdate("KeyError", update)
                      ELSE [raises |-> FALSE, cause |-> "",
                            rag_update |-> Some(update),
                            offer |-> Some(banker_response.offer),
                            humanized_answer |-> banker_response.message,
                            game_state |->
                              [round |-> round_num,
                               expected_value |-> Some(offer_data.expectedValue),
                               house_edge |-> Some(offer_data.houseEdge),
                               sentiment |-> llm.sentiment]]
    ELSE IF llm.conversation_raises THEN Raised("collaborator")
         ELSE [raises |-> FALSE, cause |-> "", rag_update |-> None,
               offer |-> None,
               humanized_answer |-> "conversation",
               game_state |-> [round |-> round_num, expected_value |-> None,
                               house_edge |-> None, sentiment |-> "conversational"]]

(***************************************************************************)
(* The server: banker_api_server.py                                        *)
(***************************************************************************)
\* number of game ids uuid4 can hand out in one run
MaxGames == 2

GameIds == 1..MaxGames

\* the empty game id "" of the error responses
NoGame == 0

\* the starting amounts with the largest one left out
DefaultCardsWithoutTop ==
    <<1, 5, 10, 25, 50, 100, 500, 1000, 2500, 5000, 10000, 25000, 50000, 75000,
      100000, 200000, 300000, 400000, 500000, 750000>>

DefaultCards ==
    <<1, 5, 10, 25, 50, 100, 500, 1000, 2500, 5000, 10000, 25000, 50000, 75000,
      100000, 200000, 300000, 400000, 500000, 750000, 1000000>>

get_default_game_state ==
    [round |-> 1,
     remaining_cards |-> DefaultCards,
     burnt_cards |-> << >>,
     selected_case |-> None,
     current_offer |-> None,
     expected_value |-> None,
     house_edge |-> None,
     status |-> "active"]

\* Python truthiness of an Optional[int]
Truthy(opt) == opt # None /\ opt[1] # 0

\* journal entries; the banker's formatted message is kept as its template
\* (message_type), the amount it quotes and the line it embeds
UserEntry(message) ==
    [sender |-> "user", message_type |-> "text", text |-> message,
     amount |-> None, answer |-> ""]

BankerEntry(message_type, amount, answer) ==
    [sender |-> "banker", message_type |-> message_type, text |-> << >>,
     amount |-> amount, answer |-> answer]

\* the error field of a response: the handler's text and str(e)
NoError == <<"", "">>

\* ChatResponse / StartGameResponse as returned to the caller
Response(op, game_id, game, message_type, offer, sentiment) ==
    [op |-> op, game_id |-> game_id, success |-> TRUE, error |-> NoError,
     message_type |-> message_type, offer |-> offer,
     round |-> game.round, status |-> game.status,
     current_offer |-> game.current_offer, sentiment |-> sentiment,
     final_result |-> None, total_winnings |-> None, messages |-> << >>]

ErrorResponse(op, game_id, error) ==
    [op |-> op, game_id |-> game_id, success |-> FALSE, error |-> error,
     message_type |-> "text", offer |-> None,
     round |-> 0, status |-> "error",
     current_offer |-> None, sentiment |-> "",
     final_result |-> None, total_winnings |-> None, messages |-> << >>]

\* the messages the handlers pass to the pipeline themselves
StartMessage == <<"s","t","a","r","t"," ","g","a","m","e">>

UpdateMessage == <<"G","a","m","e"," ","s","t","a","t","e"," ","u","p","d","a","t","e","d">>

\* chat messages a player sends
Messages ==
    { <<"h","i">>,
      <<"N","o"," ","D","e","a","l">>,
      <<"I"," ","a","c","c","e","p","t">>,
      <<"y","e","s"," ","p","a","s","s">> }

deal_phrases ==
    { <<"a","c","c","e","p","t">>,
      <<"y","e","s">>,
      <<"t","a","k","e"," ","i","t">>,
      <<"i","'","l","l"," ","t","a","k","e"," ","i","t">>,
      <<"a","g","r","e","e","d">>,
      <<"i"," ","a","c","c","e","p","t">>,
      <<"d","e","a","l"," ","a","c","c","e","p","t","e","d">>,
      <<"t","a","k","e"," ","t","h","e"," ","d","e","a","l">> }

reject_phrases ==
    { <<"n","o"," ","d","e","a","l">>,
      <<"r","e","j","e","c","t">>,
      <<"p","a","s","s">>,
      <<"n","o"," ","t","h","a","n","k","s">>,
      <<"d","e","c","l","i","n","e">>,
      <<"n","o","t"," ","i","n","t","e","r","e","s","t","e","d">> }

\* any(phrase in message_lower for phrase in reject_phrases), computed once
\* for each message of the model
rejections ==
    [message \in Messages |->
        \E phrase \in reject_phrases : Contains(Lower(message), phrase)]

\* any(phrase in message_lower for phrase in deal_phrases), likewise
acceptances ==
    [message \in Messages |->
        \E phrase \in deal_phrases : Contains(Lower(message), phrase)]

\* a rejection that gives way to an accept phrase in the same message
rejects_deal_unless_accepted(message) == rejections[message] /\ ~acceptances[message]

rejects_deal(message) == rejections[message]

accepts_deal(message) == acceptances[message]

\* the card lists and rounds update-game-state requests are built from
CardLists == { << >>, <<1>> }

ReqRounds == {0, 2}

GameStateRequests ==
    [game_id : GameIds, remaining_cards : CardLists, burnt_cards : CardLists,
     round : ReqRounds, selected_case : {None}]

\* uuid4(): an id no registered game has
\* ids drawn without regard to the ids in use
uuid4_reused == GameIds

uuid4 == GameIds \ DOMAIN active_games

\* the three fields an offer writes into the stored game
WithOffer(game, response) ==
    [game EXCEPT !.current_offer = response.offer,
                 !.expected_value = response.game_state.expected_value,
                 !.house_edge = response.game_state.house_edge]

\* no chat turn is in flight
NoTurn ==
    [state |-> "idle", game_id |-> NoGame, message |-> << >>,
     llm |-> [classify |-> [raises |-> TRUE, text |-> << >>], sentiment |-> "neutral",
              variance |-> "medium", offer_line |-> NoLine,
              conversation_raises |-> FALSE]]

\* the pipeline has not been called directly
NoQuery == [remaining_cards |-> << >>, round_num |-> 0, llm |-> NoTurn.llm]

NoResult == [ran |-> "none", decision |-> << >>, response |-> Raised("")]

\* no ChatMessage has been received
NoChat == [state |-> "none", content |-> << >>, next |-> 0, sent |-> << >>]

\* the registry of a fresh server process
NoGames ==
    /\ active_games = << >>
    /\ game_messages = << >>
    /\ resp = ErrorResponse("none", NoGame, NoError)
    /\ requests = 0
    /\ rag = InitialKnowledge

Init ==
    /\ NoGames
    /\ pending = NoTurn
    /\ query = NoQuery
    /\ result = NoResult
    /\ chat = NoChat

\* a not-found response that reports success
GameNotFoundAsSuccess(op) ==
    [ErrorResponse(op, NoGame, <<"Game not found", "">>) EXCEPT !.success = TRUE]

\* the response to a request that names a game id not in active_games
GameNotFound(op) == ErrorResponse(op, NoGame, <<"Game not found", "">>)

\* the knowledge store after a call of the pipeline
rag_after(response) ==
    IF response.rag_update = None THEN rag ELSE response.rag_update[1]

\* a journal that keeps only its newest entry
replace_messages(journal, entry) == <<entry>>

\* game_messages[game_id].append(entry)
append_message(journal, entry) == Append(journal, entry)

\* POST /start-game
start_game(llm) ==
    \E game_id \in uuid4 :
        LET game_state == get_default_game_state
            response == process_banker_query(StartMessage, game_state.remaining_cards,
                            game_state.burnt_cards, game_state.round, llm)
            stored == IF response.offer # None THEN WithOffer(game_state, response)
                      ELSE game_state
            message_type == IF Truthy(response.offer) THEN "offer" ELSE "conversation"
        IN  /\ rag' = rag_after(response)
            /\ IF response.raises
               THEN /\ active_games' = (game_id :> game_state) @@ active_games
                    /\ game_messages' = (game_id :> << >>) @@ game_messages
                    /\ resp' = ErrorResponse("start_game", NoGame,
                                             <<"Failed to start game", response.cause>>)
               ELSE /\ active_games' = (game_id :> stored) @@ active_games
                    /\ game_messages' =
                         (game_id :> append_message(<< >>,
                                         BankerEntry(message_type, response.offer,
                                                     response.humanized_answer)))
                           @@ game_messages
                    /\ resp' = Response("start_game", game_id, stored, "", None, "")


\* a rejection that withdraws the standing offer
RejectedGameForfeitsOffer(game_data) ==
    [game_data EXCEPT !.status = "completed", !.current_offer = None]

\* the game after the player's message was taken as a rejection
RejectedGame(game_data) == [game_data EXCEPT !.status = "completed"]

\* an acceptance that adopts the offer the pipeline made for the accepting
\* message
AcceptedGameAdoptsOffer(game_data, response) ==
    IF response.offer # None
    THEN [WithOffer(game_data, response) EXCEPT !.status = "completed"]
    ELSE [game_data EXCEPT !.status = "completed"]

\* the game after the player's message was taken as an acceptance; the
\* response of the pipeline is not looked at
AcceptedGame(game_data, response) == [game_data EXCEPT !.status = "completed"]

\* the game after a regular turn that produced an offer
OfferedGame(game_data, response) ==
    [WithOffer(game_data, response) EXCEPT !.round = response.game_state.round]

\* a regular turn without an offer that withdraws the standing offer
ConversedGameWithoutOffer(game_data) == [game_data EXCEPT !.current_offer = None]

\* the game after a regular turn that produced no offer
ConversedGame(game_data) == game_data

\* POST /chat
chat_with_banker(game_id, message, llm) ==
    IF game_id \notin DOMAIN active_games
    THEN /\ resp' = GameNotFound("chat")
         /\ UNCHANGED <<active_games, game_messages, rag>>
    ELSE
         LET game_data == active_games[game_id]
             journal == append_message(game_messages[game_id], UserEntry(message))
             response == process_banker_query(message, game_data.remaining_cards,
                             game_data.burnt_cards, game_data.round, llm)
             \* formatting None with "," raises TypeError
             raises == \/ response.raises
                       \/ /\ ~rejects_deal(message)
                          /\ accepts_deal(message)
                          /\ game_data.current_offer = None
             game == IF rejects_deal(message) THEN RejectedGame(game_data)
                     ELSE IF accepts_deal(message) THEN AcceptedGame(game_data, response)
                     ELSE IF response.offer # None THEN OfferedGame(game_data, response)
                     ELSE ConversedGame(game_data)
             entry == IF rejects_deal(message)
                      THEN BankerEntry("game_over", None, "")
                      ELSE IF accepts_deal(message)
                      THEN BankerEntry("deal_accepted", game_data.current_offer, "")
                      ELSE IF response.offer # None
                      THEN BankerEntry("offer", response.offer, response.humanized_answer)
                      ELSE BankerEntry("conversation", None, response.humanized_answer)
         IN  /\ rag' = rag_after(response)
             /\ IF raises
                THEN /\ game_messages' = [game_messages EXCEPT ![game_id] = journal]
                     /\ resp' = ErrorResponse("chat", game_id,
                                     <<"Failed to process message",
                                       IF response.raises THEN response.cause
                                       ELSE "TypeError">>)
                     /\ UNCHANGED active_games
                ELSE /\ active_games' = [active_games EXCEPT ![game_id] = game]
                     /\ game_messages' =
                          [game_messages EXCEPT ![game_id] = append_message(journal, entry)]
                     /\ resp' = Response("chat", game_id, game, entry.message_type,
                                         game.current_offer, response.game_state.sentiment)

\* an update that also writes the status of a fresh game
UpdatedGameResetsStatus(game, req) ==
    [game EXCEPT !.remaining_cards = req.remaining_cards,
                 !.burnt_cards = req.burnt_cards,
                 !.round = req.round,
                 !.selected_case = req.selected_case,
                 !.status = "active"]

\* the dict.update() of update_game_state
UpdatedGame(game, req) ==
    [game EXCEPT !.remaining_cards = req.remaining_cards,
                 !.burnt_cards = req.burnt_cards,
                 !.round = req.round,
                 !.selected_case = req.selected_case]

\* POST /update-game-state
update_game_state(req, llm) ==
    IF req.game_id \notin DOMAIN active_games
    THEN /\ resp' = GameNotFound("update")
         /\ UNCHANGED <<active_games, game_messages, rag>>
    ELSE LET updated == UpdatedGame(active_games[req.game_id], req)
             response == process_banker_query(UpdateMessage, req.remaining_cards,
                             req.burnt_cards, req.round, llm)
             game == IF response.offer # None THEN WithOffer(updated, response)
                     ELSE updated
         IN  /\ UNCHANGED game_messages
             /\ rag' = rag_after(response)
             /\ IF response.raises
                THEN /\ active_games' = [active_games EXCEPT ![req.game_id] = updated]
                     /\ resp' = ErrorResponse("update", req.game_id,
                                   <<"Failed to update game state", response.cause>>)
                ELSE /\ active_games' = [active_games EXCEPT ![req.game_id] = game]
                     /\ resp' = Response("update", req.game_id, game,
                                   IF Truthy(response.offer) THEN "offer"
                                   ELSE "conversation",
                                   game.current_offer, "")

\* GET /game-history/{game_id}, as a function of the state
GameHistory(game_id) ==
    IF game_id \notin DOMAIN game_messages
    THEN [ErrorResponse("history", game_id, NoError) EXCEPT
            !.success = TRUE, !.status = "",
            !.final_result = Some("Game not found")]
    ELSE LET game_data == active_games[game_id]
             completed == game_data.status = "completed"
         IN  [ErrorResponse("history", game_id, NoError) EXCEPT
                !.success = TRUE, !.status = "",
                !.messages = game_messages[game_id],
                !.final_result = IF completed THEN Some("completed") ELSE None,
                !.total_winnings = IF completed THEN game_data.current_offer ELSE None]

get_game_history(game_id) ==
    /\ resp' = GameHistory(game_id)
    /\ UNCHANGED <<active_games, game_messages, rag>>

\* one more request is served, from its arrival to its response
Served ==
    /\ requests < MaxRequests
    /\ requests' = requests + 1
    /\ UNCHANGED <<pending, query, result, chat>>

Next ==
    \/ \E llm \in ServerBehaviours : Served /\ start_game(llm)
    \/ \E game_id \in GameIds, message \in Messages, llm \in ServerBehaviours :
         Served /\ chat_with_banker(game_id, message, llm)
    \/ \E req \in GameStateRequests, llm \in ServerBehaviours :
         Served /\ update_game_state(req, llm)
    \/ \E game_id \in GameIds : Served /\ get_game_history(game_id)

Spec == Init /\ [][Next]_vars

(***************************************************************************)
(* The pipeline called directly, as the tests of the repository call it:   *)
(* ai_decide_response_type and process_banker_query on one set of          *)
(* arguments, with every answer the collaborators may give.                *)
(***************************************************************************)
\* highest round a direct call is made with
MaxRound == 6

PipelineRounds == 0..MaxRound

\* remaining amounts of a direct call: none, expected values of at most 1,
\* small expected values, a single large amount and the starting amounts
PipelineCards ==
    { << >>, <<1>>, <<0, 1>>, <<2>>, <<100>>, <<0, 100>>, <<1000000>>,
      DefaultCards }

PipelineQueries ==
    [remaining_cards : PipelineCards, round_num : PipelineRounds, llm : LLMBehaviours]

PipelineInit ==
    /\ NoGames
    /\ pending = NoTurn
    /\ query \in PipelineQueries
    /\ result = NoResult
    /\ chat = NoChat

\* test_ai_decision_making: the decision alone
decide ==
    /\ result = NoResult
    /\ result' =
         IF query.llm.classify.raises
         THEN [ran |-> "decide", decision |-> << >>, response |-> Raised("collaborator")]
         ELSE [ran |-> "decide",
               decision |-> ai_decide_response_type(query.llm.classify.text),
               response |-> Raised("")]
    /\ UNCHANGED <<active_games, game_messages, resp, requests, pending, query, rag,
                    chat>>

\* test_full_ai_workflow: the whole pipeline
process ==
    /\ result = NoResult
    /\ result' =
         [ran |-> "process", decision |-> << >>,
          response |-> process_banker_query(StartMessage, query.remaining_cards,
                           << >>, query.round_num, query.llm)]
    /\ rag' = rag_after(result'.response)
    /\ UNCHANGED <<active_games, game_messages, resp, requests, pending, query, chat>>

PipelineNext == decide \/ process

PipelineSpec == PipelineInit /\ [][PipelineNext]_vars

(***************************************************************************)
(* A chat turn in the steps the event loop sees: the handler enters the    *)
(* blocking call LLM.create_completion, the collaborator answers (a text   *)
(* or an exception) or does not, and the handler runs on to its response.  *)
(* The handler has no await, so no other request runs in between and what  *)
(* it wrote before the call is seen by nobody until it returns; the call   *)
(* is made without a timeout argument and nothing in the handler gives up  *)
(* waiting.                                                                *)
(***************************************************************************)
\* POST /start-game, served in one step
turn_start_game(llm) ==
    /\ pending.state = "idle"
    /\ requests < MaxRequests
    /\ requests' = requests + 1
    /\ start_game(llm)
    /\ UNCHANGED <<pending, query, result, chat>>

\* POST /update-game-state, served in one step
turn_update_game_state(req, llm) ==
    /\ pending.state = "idle"
    /\ requests < MaxRequests
    /\ requests' = requests + 1
    /\ update_game_state(req, llm)
    /\ UNCHANGED <<pending, query, result, chat>>

\* a handler that is entered while another one is inside create_completion
call_collaborator_while_busy(game_id, message) ==
    /\ requests < MaxRequests
    /\ game_id \in DOMAIN active_games
    /\ requests' = requests + 1
    /\ pending' = [NoTurn EXCEPT !.state = "calling", !.game_id = game_id,
                                 !.message = message]
    /\ UNCHANGED <<active_games, game_messages, resp, query, result, rag, chat>>

\* POST /chat arrives for a registered game and the handler enters
\* create_completion
call_collaborator(game_id, message) ==
    /\ pending.state = "idle"
    /\ requests < MaxRequests
    /\ game_id \in DOMAIN active_games
    /\ requests' = requests + 1
    /\ pending' = [NoTurn EXCEPT !.state = "calling", !.game_id = game_id,
                                 !.message = message]
    /\ UNCHANGED <<active_games, game_messages, resp, query, result, rag, chat>>

\* the collaborator answers the calls of the turn, or raises
collaborator_answers(llm) ==
    /\ pending.state = "calling"
    /\ pending' = [pending EXCEPT !.state = "answered", !.llm = llm]
    /\ UNCHANGED <<active_games, game_messages, resp, requests, query, result, rag,
                    chat>>

\* the handler runs to its return statement
return_response ==
    /\ pending.state = "answered"
    /\ chat_with_banker(pending.game_id, pending.message, pending.llm)
    /\ pending' = NoTurn
    /\ UNCHANGED <<requests, query, result, chat>>

TurnNext ==
    \/ \E llm \in ServerBehaviours : turn_start_game(llm)
    \/ \E req \in GameStateRequests, llm \in ServerBehaviours :
         turn_update_game_state(req, llm)
    \/ \E game_id \in GameIds, message \in Messages : call_collaborator(game_id, message)
    \/ \E llm \in ServerBehaviours : collaborator_answers(llm)
    \/ return_response

\* the event loop keeps running a handler that can run; whether the
\* collaborator answers is not the server's to decide
TurnSpec == Init /\ [][TurnNext]_vars /\ WF_vars(return_response)

(***************************************************************************)
(* The chat-protocol agent: agent.py handle_message on one ChatMessage.    *)
(* The handler acknowledges, then walks through the content items; every   *)
(* ctx.send is one step.                                                   *)
(***************************************************************************)
\* most content items of one ChatMessage
MaxItems == 2

\* the game state extract_game_state_from_message finds in a text, if any
ExtractedStates ==
    {None, Some([remaining_cards |-> <<100, 500>>, round |-> 2, burnt_cards |-> << >>])}

\* content items: StartSessionContent, TextContent, EndSessionContent
ChatItems ==
    {[type |-> "start-session", text |-> << >>, extracted |-> None],
     [type |-> "end-session", text |-> << >>, extracted |-> None]}
    \cup {[type |-> "text", text |-> <<"h","i">>, extracted |-> e] : e \in ExtractedStates}

ChatContents == UNION {[1..n -> ChatItems] : n \in 0..MaxItems}

\* agent.py parse_game_state_from_message
parse_game_state_from_message(item) ==
    IF item.extracted # None THEN item.extracted[1]
    ELSE [remaining_cards |-> DefaultCards, round |-> 1, burnt_cards |-> << >>]

\* the keys of the dict process_banker_query returns
ResultKeys == {"selected_question", "humanized_answer", "offer", "game_state"}

\* what the handler sends
Acknowledgement == [kind |-> "ack", header |-> FALSE, amount |-> None]
Welcome == [kind |-> "welcome", header |-> FALSE, amount |-> None]
Apology == [kind |-> "apology", header |-> FALSE, amount |-> None]

\* the formatting of the answer text: the round header and "My Offer" line
\* with the amount, then the psychology and game state lines
format_answer(response) ==
    IF response.offer = None
    THEN [raises |-> TRUE, cause |-> "TypeError", text |-> Apology]
    ELSE IF "psychology" \notin ResultKeys
    THEN [raises |-> TRUE, cause |-> "KeyError", text |-> Apology]
    ELSE [raises |-> FALSE, cause |-> "",
          text |-> [kind |-> "answer", header |-> TRUE, amount |-> response.offer]]

\* an except clause that only logs the error
log_error(sent) == sent

\* the except clause of handle_message
send_apology(sent) == Append(sent, Apology)

AgentInit ==
    /\ NoGames
    /\ pending = NoTurn
    /\ query = NoQuery
    /\ result = NoResult
    /\ chat \in {[NoChat EXCEPT !.state = "received", !.content = content] :
                   content \in ChatContents}

\* the item the loop of the handler is at
AtItem(type) ==
    /\ chat.state = "handling"
    /\ chat.next <= Len(chat.content)
    /\ chat.content[chat.next].type = type

AgentFrame == UNCHANGED <<active_games, game_messages, resp, requests, pending, query>>

\* ctx.send(sender, ChatAcknowledgement(...))
acknowledge ==
    /\ chat.state = "received"
    /\ chat' = [chat EXCEPT !.state = "handling", !.next = 1,
                            !.sent = Append(@, Acknowledgement)]
    /\ AgentFrame
    /\ UNCHANGED <<result, rag>>

\* a StartSessionContent item: the welcome message
welcome ==
    /\ AtItem("start-session")
    /\ chat' = [chat EXCEPT !.next = @ + 1, !.sent = Append(@, Welcome)]
    /\ AgentFrame
    /\ UNCHANGED <<result, rag>>

\* a TextContent item: the pipeline, the formatting, and the one send of
\* the try or of the except
answer(llm) ==
    /\ AtItem("text")
    /\ LET item == chat.content[chat.next]
           game_state == parse_game_state_from_message(item)
           response == process_banker_query(item.text, game_state.remaining_cards,
                           game_state.burnt_cards, game_state.round, llm)
           formatted == format_answer(response)
       IN  /\ result' = [ran |-> "agent", decision |-> << >>, response |-> response]
           /\ rag' = rag_after(response)
           /\ chat' = [chat EXCEPT
                         !.next = @ + 1,
                         !.sent = IF response.raises \/ formatted.raises
                                  THEN send_apology(@)
                                  ELSE Append(@, formatted.text)]
    /\ AgentFrame

\* any other content item is only logged
unexpected ==
    /\ AtItem("end-session")
    /\ chat' = [chat EXCEPT !.next = @ + 1]
    /\ AgentFrame
    /\ UNCHANGED <<result, rag>>

\* the loop is through and the handler returns
handled ==
    /\ chat.state = "handling"
    /\ chat.next > Len(chat.content)
    /\ chat' = [chat EXCEPT !.state = "done"]
    /\ AgentFrame
    /\ UNCHANGED <<result, rag>>

AgentNext ==
    \/ acknowledge
    \/ welcome
    \/ \E llm \in LLMBehaviours : answer(llm)
    \/ unexpected
    \/ handled

AgentSpec == AgentInit /\ [][AgentNext]_vars

(***************************************************************************)
(* Properties of the session state machine.                                *)
(***************************************************************************)
Range(seq) == {seq[i] : i \in 1..Len(seq)}

\* the answer is the word "offer", letter case and surrounding blanks aside
IsOfferLabel(text) == Lower(Strip(text)) = <<"o","f","f","e","r">>

\* a request on game g was served in this step
ServedOn(op, g) == requests' # requests /\ resp'.op = op /\ resp'.game_id = g

\* the part of a session a turn may touch
SessionUnchanged(g) ==
    /\ active_games'[g] = active_games[g]
    /\ game_messages'[g] = game_messages[g]

\* C1: a session that has reached the terminal status keeps it in every
\* later step, whatever request (start, chat, update, history) is served.
StatusOnlyMovesForward ==
    [][\A g \in DOMAIN active_games :
          active_games[g].status = "completed"
            => /\ g \in DOMAIN active_games'
               /\ active_games'[g].status = "completed"]_vars

\* a completed session on which an update-game-state request has succeeded
CompletedThenUpdated ==
    \E g \in DOMAIN active_games :
        /\ active_games[g].status = "completed"
        /\ resp.op = "update" /\ resp.game_id = g /\ resp.success

\* C2: every chat turn on a terminal session fails with an error and leaves
\* the game state and the journal of the session as they were.
TerminalChatFails ==
    [][\A g \in DOMAIN active_games :
          (active_games[g].status = "completed" /\ ServedOn("chat", g))
            => (~resp'.success /\ SessionUnchanged(g))]_vars

\* C3: an accept on an Active session without a standing offer fails with an
\* error, the session stays Active and its status, offer and journal are
\* unchanged.
AcceptWithoutOfferChangesNothing ==
    [][\A g \in DOMAIN active_games, message \in Messages, llm \in ServerBehaviours :
          ( /\ active_games[g].status = "active"
            /\ active_games[g].current_offer = None
            /\ accepts_deal(message) /\ ~rejects_deal(message)
            /\ chat_with_banker(g, message, llm) )
            => (~resp'.success /\ SessionUnchanged(g))]_vars

\* C4: once a session has been accepted, the winnings reported by the
\* history stay equal to the amount announced at the (first) acceptance.
FinalAmountImmutable ==
    \A g \in DOMAIN game_messages :
        LET journal == game_messages[g]
            accepted == {i \in 1..Len(journal) :
                           journal[i].message_type = "deal_accepted"}
        IN  accepted # {}
              => LET first == CHOOSE i \in accepted : \A j \in accepted : i <= j
                 IN  GameHistory(g).total_winnings = journal[first].amount

\* C5: a session ended by a reject (and never accepted) has no winnings
\* attributed to it from the forfeited offer.
RejectForfeitsOffer ==
    \A g \in DOMAIN game_messages :
        LET kinds == {game_messages[g][i].message_type :
                        i \in 1..Len(game_messages[g])}
        IN  ("game_over" \in kinds /\ "deal_accepted" \notin kinds)
              => /\ active_games[g].status = "completed"
                 /\ GameHistory(g).total_winnings = None

\* C6: right after every successful update-game-state the session has no
\* standing offer.
UpdateClearsOffer ==
    [][\A g \in DOMAIN active_games :
          (ServedOn("update", g) /\ resp'.success)
            => active_games'[g].current_offer = None]_vars

\* C7: an update-game-state on a terminal session fails with an error and
\* leaves remaining, burnt, round and current offer unchanged.
TerminalUpdateFails ==
    [][\A g \in DOMAIN active_games :
          (active_games[g].status = "completed" /\ ServedOn("update", g))
            => /\ ~resp'.success
               /\ active_games'[g].remaining_cards = active_games[g].remaining_cards
               /\ active_games'[g].burnt_cards = active_games[g].burnt_cards
               /\ active_games'[g].round = active_games[g].round
               /\ active_games'[g].current_offer = active_games[g].current_offer]_vars

\* C8: in every state of every session the remaining and the burnt amounts
\* are disjoint.
RemainingBurntDisjoint ==
    \A g \in DOMAIN active_games :
        Range(active_games[g].remaining_cards)
          \cap Range(active_games[g].burnt_cards) = {}

\* C9: in every state of every session remaining and burnt together are
\* exactly the initial amounts of the game.
AmountsConserved ==
    \A g \in DOMAIN active_games :
        Range(active_games[g].remaining_cards)
          \cup Range(active_games[g].burnt_cards) = Range(DefaultCards)

\* C10: the round of a session is at least 1 and no step decreases it.
RoundNeverDecreases ==
    [][\A g \in DOMAIN active_games :
          /\ active_games'[g].round >= active_games[g].round
          /\ active_games'[g].round >= 1]_vars

\* C12: when the collaborator raises (or times out) during a chat turn with
\* an ordinary message on an existing active session, the turn still
\* returns a successful response of the conversation kind and creates no
\* offer.
DegradedSignalRecovered ==
    [][\A g \in DOMAIN active_games, message \in Messages, llm \in ServerBehaviours :
          ( /\ active_games[g].status = "active"
            /\ llm.classify.raises
            /\ ~rejects_deal(message) /\ ~accepts_deal(message)
            /\ chat_with_banker(g, message, llm) )
            => /\ resp'.success
               /\ resp'.message_type = "conversation"
               /\ active_games'[g].current_offer = active_games[g].current_offer]_vars

\* C13: every chat turn that has entered the call to the collaborator
\* eventually returns a response to the caller, also when the collaborator
\* never answers.
ChatTurnEventuallyReturns ==
    (pending.state = "calling") ~> (pending.state = "idle")

\* the amounts the offer calculation produces for a game under the given
\* sentiments (the variance class is the calculation's own)
ComputedOffers(game, sentiments) ==
    { calculate_base_offer(game.remaining_cards, game.round, s, v).offer :
        s \in sentiments, v \in VarianceClasses }

\* the last request was a start, chat or update turn that made an offer
OfferTurn ==
    /\ resp.success
    /\ \/ resp.op \in {"chat", "update"} /\ resp.message_type = "offer"
       \/ resp.op = "start_game" /\ resp.current_offer # None

\* C14: after every turn that makes an offer, the offer returned to the
\* caller and the current_offer stored in the session are the amount the
\* offer calculation produces for the session's remaining amounts, round and
\* (on a chat turn) the sentiment of the turn, whatever number the
\* generator echoed in its line.
AuthoritativeOfferIsComputed ==
    OfferTurn =>
        LET game == active_games[resp.game_id]
        IN  /\ resp.current_offer # None
            /\ game.current_offer = resp.current_offer
            /\ resp.op # "start_game" => resp.offer = resp.current_offer
            /\ resp.current_offer[1] \in
                 ComputedOffers(game, IF resp.op = "chat" THEN {resp.sentiment}
                                      ELSE Sentiments)

\* a chat turn made an offer that is not the number the generator echoed
OfferDiffersFromEcho ==
    /\ resp.op = "chat" /\ resp.success /\ resp.message_type = "offer"
    /\ resp.offer # None
    /\ resp.offer[1] \notin EchoedOffers
    /\ active_games[resp.game_id].current_offer = resp.offer

\* the collaborator's answers that make the turn an OFFER turn
OfferBehaviours ==
    { llm \in ServerBehaviours :
        ~llm.classify.raises /\ ai_decide_response_type(llm.classify.text) = OFFER }

\* the request failed with the InvalidState error in its response and the
\* standing offer of game g is what it was
FailedInvalidState(g) ==
    /\ ~resp'.success
    /\ resp'.error[2] = "InvalidState"
    /\ active_games'[g].current_offer = active_games[g].current_offer

\* the message of the chat turn just served on game g: the user entry it
\* appended to the journal
TurnMessage(g) == game_messages'[g][Len(game_messages[g]) + 1].text

\* the update-game-state request just served on game g: the fields it
\* stored in the session
TurnRequest(g) ==
    [game_id |-> g,
     remaining_cards |-> active_games'[g].remaining_cards,
     burnt_cards |-> active_games'[g].burnt_cards,
     round |-> active_games'[g].round,
     selected_case |-> active_games'[g].selected_case]

\* C20: a chat turn on a session whose remaining set is empty, and an
\* update-game-state that sends an empty remaining set, fail with the
\* InvalidState error in the response whenever the decision is OFFER, and
\* leave the session's current_offer as it was.
NoOfferOnEmptyRemaining ==
    [][LET g == resp'.game_id
       IN  /\ ( /\ resp'.op = "chat"
                 /\ g \in DOMAIN active_games
                 /\ active_games[g].remaining_cards = << >> )
                 => \A llm \in OfferBehaviours :
                        chat_with_banker(g, TurnMessage(g), llm)
                          => FailedInvalidState(g)
           /\ ( /\ resp'.op = "update"
                 /\ g \in DOMAIN active_games
                 /\ active_games'[g].remaining_cards = << >> )
                 => \A llm \in OfferBehaviours :
                        update_game_state(TurnRequest(g), llm)
                          => FailedInvalidState(g)]_vars

\* a chat turn on a session without remaining amounts failed with
\* InvalidState
EmptyRemainingRefused ==
    /\ resp.op = "chat"
    /\ ~resp.success
    /\ resp.error[2] = "InvalidState"
    /\ active_games[resp.game_id].remaining_cards = << >>

\* journal a is an initial part of journal b
IsPrefix(a, b) == Len(a) <= Len(b) /\ SubSeq(b, 1, Len(a)) = a

\* C21: the journal of a session is append-only: in every step the journal
\* before the step is a prefix of the journal after it (no entry is
\* reordered, rewritten or removed), and a history request returns the
\* entries in the order they were appended and changes no state.
JournalAppendOnly ==
    [][/\ \A g \in DOMAIN game_messages :
             /\ g \in DOMAIN game_messages'
             /\ IsPrefix(game_messages[g], game_messages'[g])
       /\ (requests' # requests /\ resp'.op = "history")
            => /\ UNCHANGED <<active_games, game_messages>>
               /\ \A g \in DOMAIN game_messages :
                     resp'.game_id = g => resp'.messages = game_messages[g]]_vars

\* a history request answered with a journal of two turns or more
HistoryOfSeveralEntries ==
    /\ resp.op = "history"
    /\ Len(resp.messages) >= 3
    /\ resp.messages[1].sender = "banker"
    /\ resp.messages[2].sender = "user"

\* the turns applied to a session: every start and every chat turn that
\* succeeded has appended one banker entry, and nothing else appends one
AppliedTurns(g) ==
    Cardinality({i \in 1..Len(game_messages[g]) :
                    game_messages[g][i].sender = "banker"})

\* C22: after N successfully applied turns on a session (the start, with
\* its single banker entry, and the chat turns) a history request returns
\* the journal in the order it was written, with at most N x 2 entries, and
\* the banker entry of every applied chat turn directly follows the entry
\* of the player's message.
HistoryTwoEntriesPerAppliedTurn ==
    \A g \in DOMAIN game_messages :
        LET messages == GameHistory(g).messages
        IN  /\ messages = game_messages[g]
            /\ Len(messages) <= 2 * AppliedTurns(g)
            /\ \A i \in 2..Len(messages) :
                  messages[i].sender = "banker" => messages[i - 1].sender = "user"

\* C23: turn application is all-or-nothing: a chat turn that fails part-way
\* (the collaborator raises, or anything else raises in the handler) leaves
\* the session exactly as before, with no player entry added to the journal
\* and no offer, expected value or round changed.
FailedTurnLeavesSession ==
    [][\A g \in DOMAIN active_games :
          (ServedOn("chat", g) /\ ~resp'.success)
            => /\ game_messages'[g] = game_messages[g]
               /\ active_games'[g].current_offer = active_games[g].current_offer
               /\ active_games'[g].expected_value = active_games[g].expected_value
               /\ active_games'[g].round = active_games[g].round]_vars

SessionsIsolated ==
    [][/\ \A h \in DOMAIN active_games :
             resp'.game_id # h => SessionUnchanged(h)
       /\ rag' = rag]_vars

\* C26: a chat turn or update-game-state request for a game id that is not
\* in the registry fails with the not-found error, which no other failure
\* uses, creates no session and no journal and changes no existing session;
\* every other response to such a request is for an id that was registered
\* when the request arrived.
UnknownGameRefused ==
    [][(requests' # requests /\ resp'.op \in {"chat", "update"})
         => IF resp'.error[1] = "Game not found"
            THEN /\ ~resp'.success
                 /\ UNCHANGED <<active_games, game_messages>>
            ELSE /\ resp'.game_id \in DOMAIN active_games
                 /\ resp'.error[1] \in {"", "Failed to process message",
                                        "Failed to update game state"}]_vars

\* an update-game-state request for an unknown id, refused while another
\* session exists
UnknownGameUpdateRefused ==
    /\ resp.op = "update"
    /\ resp.error[1] = "Game not found"
    /\ DOMAIN active_games # {}

\* a start request was served with success in this step
Started == requests' # requests /\ resp'.op = "start_game" /\ resp'.success

\* C27 as stated: immediately after a successful start the new session is
\* active, in round 1, with the full set of starting amounts in remaining,
\* empty burnt and an empty journal, under an id that no registered session
\* had, and no existing session is changed.
StartedWithEmptyJournal ==
    [][Started =>
       LET g == resp'.game_id
       IN  /\ g \notin DOMAIN active_games
           /\ g \in DOMAIN active_games'
           /\ \A h \in DOMAIN active_games : SessionUnchanged(h)
           /\ active_games'[g].status = "active"
           /\ active_games'[g].round = 1
           /\ active_games'[g].remaining_cards = DefaultCards
           /\ active_games'[g].burnt_cards = << >>
           /\ game_messages'[g] = << >>]_vars

\* C27 as amended: immediately after a successful start the new session is
\* active, in round 1, with the full set of starting amounts in remaining,
\* empty burnt and a journal that holds only the banker's opening entry,
\* under an id that no registered session had, and no existing session is
\* changed.
StartedWithOpeningEntry ==
    [][Started =>
       LET g == resp'.game_id
       IN  /\ g \notin DOMAIN active_games
           /\ g \in DOMAIN active_games'
           /\ \A h \in DOMAIN active_games : SessionUnchanged(h)
           /\ active_games'[g].status = "active"
           /\ active_games'[g].round = 1
           /\ active_games'[g].remaining_cards = DefaultCards
           /\ active_games'[g].burnt_cards = << >>
           /\ Len(game_messages'[g]) = 1
           /\ game_messages'[g][1].sender = "banker"]_vars

\* a successful start while another session is registered
SecondGameStarted ==
    /\ resp.op = "start_game" /\ resp.success
    /\ Cardinality(DOMAIN active_games) >= 2
    /\ Len(game_messages[resp.game_id]) = 1

\* C28: a CONVERSATION turn on an active session changes nothing but the
\* journal: the status stays active and current offer, expected value,
\* house edge, round, remaining and burnt are as before the turn, while the
\* journal has the two entries of the turn appended.
ConversationChangesOnlyJournal ==
    [][\A g \in DOMAIN active_games :
          (/\ ServedOn("chat", g)
           /\ resp'.success
           /\ resp'.message_type = "conversation"
           /\ active_games[g].status = "active")
            => /\ active_games'[g] = active_games[g]
               /\ Len(game_messages'[g]) = Len(game_messages[g]) + 2
               /\ IsPrefix(game_messages[g], game_messages'[g])]_vars

\* a CONVERSATION turn served on an active session that has a standing offer
ConversationWithStandingOffer ==
    /\ resp.op = "chat" /\ resp.success
    /\ resp.message_type = "conversation"
    /\ resp.game_id \in DOMAIN active_games
    /\ active_games[resp.game_id].status = "active"
    /\ active_games[resp.game_id].current_offer # None

\* C29: the result of a CONVERSATION turn carries no offer: the offer field
\* of the response returned to the caller is absent, also when the session
\* has a standing offer from an earlier turn.
ConversationCarriesNoOffer ==
    (resp.op = "chat" /\ resp.success /\ resp.message_type = "conversation")
        => resp.offer = None

\* C30: every offer that becomes the current offer of a session is
\* journaled: in every reachable state a session with a current offer has
\* in its journal a banker entry of kind offer with that amount, whichever
\* request (start, chat, update-game-state) set it.
CurrentOfferJournaled ==
    \A g \in DOMAIN active_games :
        active_games[g].current_offer # None
          => \E i \in 1..Len(game_messages[g]) :
                /\ game_messages[g][i].sender = "banker"
                /\ game_messages[g][i].message_type = "offer"
                /\ game_messages[g][i].amount = active_games[g].current_offer

\* C31: the current offer may be absent only at creation: once the current
\* offer of a session has been set, it is present in every later state of
\* that session, whatever requests follow.
CurrentOfferStaysPresent ==
    [][\A g \in DOMAIN active_games :
          active_games[g].current_offer # None
            => /\ g \in DOMAIN active_games'
               /\ active_games'[g].current_offer # None]_vars

\* a session that still has its offer after the player rejected it and an
\* update-game-state request was served on it
OfferKeptAfterRejectAndUpdate ==
    \E g \in DOMAIN active_games :
        /\ active_games[g].status = "completed"
        /\ active_games[g].current_offer # None
        /\ game_messages[g][Len(game_messages[g])].message_type = "game_over"
        /\ resp.op = "update" /\ resp.game_id = g

\* C32: the dialogue decision is deterministic given the classifier's
\* answer: whatever the session and the process have been through, a
\* regular chat turn is answered with an offer exactly when the classifier's
\* answer of that turn is the label OFFER, so that two turns with the same
\* answer are decided alike, independent of earlier decisions and of the
\* history of the session.
DecisionFollowsClassifierAlone ==
    [][(/\ pending.state = "answered"
        /\ pending'.state = "idle"
        /\ resp'.success
        /\ ~rejects_deal(pending.message)
        /\ ~accepts_deal(pending.message))
         => (resp'.message_type = "offer" <=> IsOfferLabel(pending.llm.classify.text))]_vars

\* a turn decided as conversation on a session that holds an offer, after
\* the knowledge store of the process has been written for an earlier offer
ConversationDecidedAfterOffer ==
    /\ pending.state = "idle"
    /\ resp.op = "chat" /\ resp.success
    /\ resp.message_type = "conversation"
    /\ resp.current_offer # None
    /\ rag # InitialKnowledge

\* the handler has dealt with a text item in this step
TextItemHandled == AtItem("text") /\ chat'.next = chat.next + 1

\* C33: in the chat-protocol handler a result without an offer is delivered
\* to the sender as the plain conversational line, with no round header and
\* no offer amount, and not as the error apology; only a result with an
\* offer is formatted with the round header and the amount.
ConversationDeliveredPlain ==
    [][(TextItemHandled /\ ~result'.response.raises)
         => LET reply == chat'.sent[Len(chat'.sent)]
            IN  /\ result'.response.offer = None
                     => /\ reply.kind = "answer"
                        /\ ~reply.header
                        /\ reply.amount = None
                /\ reply.header => result'.response.offer # None]_vars

\* C34: when a chat message is taken as an acceptance, the amount won is
\* the current offer that stood before the message: the session keeps that
\* offer with its expected value and house edge, the journal entry, the
\* response and the winnings of the history name it, and an offer the
\* pipeline computed for the accepting message is neither adopted nor paid.
AcceptPaysStandingOffer ==
    [][\A g \in DOMAIN active_games :
          (ServedOn("chat", g) /\ resp'.message_type = "deal_accepted")
            => LET before == active_games[g]
                   journal == game_messages'[g]
               IN  /\ active_games'[g] = [before EXCEPT !.status = "completed"]
                   /\ journal[Len(journal)].amount = before.current_offer
                   /\ resp'.offer = before.current_offer
                   /\ GameHistory(g)'.total_winnings = before.current_offer]_vars

\* an acceptance for which the pipeline computed an offer of its own, lower
\* than the standing offer that was paid
AcceptedWhileOfferComputed ==
    /\ resp.op = "chat" /\ resp.success
    /\ resp.message_type = "deal_accepted"
    /\ resp.sentiment = "aggressive"
    /\ resp.offer = Some(105832)

\* a message with the accept phrase "yes" and the reject phrase "pass"
YesPass == <<"y","e","s"," ","p","a","s","s">>

\* a message with no accept phrase and no reject phrase
Greeting == <<"h","i">>

\* C35: reject takes precedence over accept: a chat message that contains
\* both a reject phrase and an accept phrase ends the game as rejected,
\* never as accepted, and a message that contains neither phrase never
\* changes the status of the session.
RejectBeforeAccept ==
    [][\A g \in DOMAIN active_games :
          ServedOn("chat", g)
            => LET journal == game_messages'[g]
               IN  /\ (TurnMessage(g) = YesPass /\ resp'.success)
                         => /\ resp'.message_type = "game_over"
                            /\ journal[Len(journal)].message_type = "game_over"
                            /\ active_games'[g].status = "completed"
                   /\ TurnMessage(g) = YesPass
                         => /\ resp'.message_type # "deal_accepted"
                            /\ journal[Len(journal)].message_type # "deal_accepted"
                   /\ TurnMessage(g) = Greeting
                         => active_games'[g].status = active_games[g].status]_vars

\* an active session with a standing offer was ended as rejected by a
\* message that also contains an accept phrase
RejectedByYesPass ==
    \E g \in DOMAIN active_games :
        LET journal == game_messages[g]
        IN  /\ Len(journal) >= 3
            /\ journal[1].message_type = "offer"
            /\ journal[Len(journal) - 1].text = YesPass
            /\ journal[Len(journal)].message_type = "game_over"
            /\ active_games[g].status = "completed"

\* C36: a start-game or update-game-state request that returns
\* success=false leaves the registry and every session as they were before
\* the request: a failed start leaves no session and no journal registered,
\* and a failed update leaves remaining, burnt, round and current offer
\* unchanged.
FailedRequestLeavesRegistry ==
    [][(/\ requests' # requests
        /\ resp'.op \in {"start_game", "update"}
        /\ ~resp'.success)
         => UNCHANGED <<active_games, game_messages>>]_vars

\* current offer, expected value and house edge are set and absent together
OfferSnapshotWhole ==
    \A g \in DOMAIN active_games :
        LET game == active_games[g]
        IN  /\ (game.current_offer = None) = (game.expected_value = None)
            /\ (game.current_offer = None) = (game.house_edge = None)

\* C37: the offer snapshot of a session is all-or-nothing and consistent:
\* in every reachable state current offer, expected value and house edge
\* are all absent or all present, and when present they are the result of
\* one offer computation made against the remaining amounts and the round
\* the session has now.
OfferSnapshotConsistent ==
    /\ OfferSnapshotWhole
    /\ \A g \in DOMAIN active_games :
          LET game == active_games[g]
          IN  game.current_offer # None
                => \E s \in Sentiments, v \in VarianceClasses :
                      LET computed == calculate_base_offer(game.remaining_cards,
                                          game.round, s, v)
                      IN  /\ ~computed.raises
                          /\ game.current_offer = Some(computed.offer)
                          /\ game.expected_value = Some(computed.expectedValue)
                          /\ game.house_edge = Some(computed.houseEdge)

\* positions of a sequence whose entry is of one of the kinds
OfKind(seq, kinds) == {i \in 1..Len(seq) : seq[i].kind \in kinds}

\* the text items the loop of the handler has dealt with
TextItemsDone ==
    {i \in 1..Len(chat.content) : i < chat.next /\ chat.content[i].type = "text"}

\* C38: in the chat-protocol handler every received ChatMessage is
\* acknowledged exactly once and the acknowledgement is sent before any
\* reply to its content; each text item the handler has dealt with has
\* produced exactly one reply to the sender, the banker's answer or the
\* error apology.
AcknowledgedThenOneReplyEach ==
    /\ chat.state = "received" => chat.sent = << >>
    /\ chat.state \in {"handling", "done"}
         => /\ OfKind(chat.sent, {"ack"}) = {1}
            /\ Cardinality(OfKind(chat.sent, {"answer", "apology"}))
                 = Cardinality(TextItemsDone)
    /\ chat.state = "done" => chat.next = Len(chat.content) + 1

\* the handler is through a message of two text items: the acknowledgement,
\* then one reply for each
TwoTextItemsReplied ==
    /\ chat.state = "done"
    /\ Len(chat.content) = 2
    /\ chat.content[1].type = "text" /\ chat.content[2].type = "text"
    /\ Len(chat.sent) = 3
    /\ chat.sent[1].kind = "ack"

\* api_models.py GameState.max_offer_limit
max_offer_limit == 165

\* C39: no offer exceeds the maximum offer limit: in every reachable state
\* the current offer of a session, and with it every amount that can be
\* accepted and every amount paid as winnings, is at most max_offer_limit.
OfferWithinLimit ==
    /\ \A g \in DOMAIN active_games :
          active_games[g].current_offer # None
            => active_games[g].current_offer[1] <= max_offer_limit
    /\ resp.offer # None => resp.offer[1] <= max_offer_limit
    /\ resp.total_winnings # None => resp.total_winnings[1] <= max_offer_limit

(***************************************************************************)
(* Properties of the pipeline.                                             *)
(***************************************************************************)
\* a direct call of the pipeline returned normally
Processed == result.ran = "process" /\ ~result.response.raises

\* C11: whatever text the classifier returns, the decision is OFFER or
\* CONVERSATION, and it is OFFER (and an offer is made) only when the text
\* is the label OFFER; empty text, extra words or another word give
\* CONVERSATION.
DecisionIsOneOfTwoLabels ==
    /\ (result.ran = "decide" /\ ~query.llm.classify.raises)
         => /\ result.decision \in {OFFER, CONVERSATION}
            /\ (result.decision = OFFER => IsOfferLabel(query.llm.classify.text))
    /\ (Processed /\ result.response.offer # None)
         => IsOfferLabel(query.llm.classify.text)

\* the classifier answered "OFFER NOW" and the decision was CONVERSATION
ExtraWordsDecidedConversation ==
    /\ result.ran = "decide"
    /\ query.llm.classify.text = <<"O","F","F","E","R"," ","N","O","W">>
    /\ result.decision = CONVERSATION

\* C15: when the decision is OFFER and the generator's line is not JSON, is
\* JSON but no object, or is an object without a message, the pipeline
\* still returns normally, with the canned offer line and the computed
\* amount.
MalformedOfferLineRecovered ==
    ( /\ result.ran = "process"
      /\ ~query.llm.classify.raises
      /\ IsOfferLabel(query.llm.classify.text)
      /\ query.remaining_cards # << >>
      /\ ~query.llm.offer_line.raises
      /\ query.llm.offer_line.kind \in {"not_json", "not_object", "object_no_message"} )
      => /\ ~result.response.raises
         /\ result.response.humanized_answer = "canned"
         /\ result.response.offer =
              Some(calculate_base_offer(query.remaining_cards, query.round_num,
                       query.llm.sentiment, query.llm.variance).offer)

\* the pipeline returned an offer
Offered == Processed /\ result.response.offer # None

Approximately(x, y) == 100 * (IF x >= y THEN x - y ELSE y - x) <= y

\* the pipeline made an offer for the starting amounts in round 1 under
\* neutral sentiment and medium variance
DefaultOffered ==
    /\ Offered
    /\ query.remaining_cards = get_default_game_state.remaining_cards
    /\ query.round_num = get_default_game_state.round
    /\ query.llm.sentiment = "neutral"
    /\ query.llm.variance = "medium"

\* C17 as stated: for the 21 starting amounts in round 1 the expected value
\* is their mean and about 172,809, and the neutral/medium offer is about
\* 112,326 and below the expected value.
DefaultOfferAsStated ==
    DefaultOffered =>
        LET offer == result.response.offer[1]
            ev == result.response.game_state.expected_value[1]
        IN  /\ ev = <<SumSeq(DefaultCards), 21>>
            /\ Approximately(ev[1] \div ev[2], 172809)
            /\ Approximately(offer, 112326)
            /\ offer * ev[2] < ev[1]

\* C17 as amended: the expected value is the mean 3,419,191 / 21, about
\* 162,819, and the neutral/medium offer is about 105,832 and below it.
DefaultOfferAsComputed ==
    DefaultOffered =>
        LET offer == result.response.offer[1]
            ev == result.response.game_state.expected_value[1]
        IN  /\ ev = <<3419191, 21>>
            /\ Approximately(ev[1] \div ev[2], 162819)
            /\ Approximately(offer, 105832)
            /\ offer * ev[2] < ev[1]

\* the offer for the starting amounts was made: 105,832
DefaultRoundOneOffer ==
    DefaultOffered /\ result.response.offer = Some(105832)

\* C18: the house-edge multiplier is decided by the round band alone:
\* 0.65 (edge 35%) in rounds 1 and 2, 0.75 (25%) in rounds 3 and 4, 0.85
\* (15%) in every round from 5 on, whatever the amounts, sentiment and
\* variance class; a single amount of 1,000,000 under neutral sentiment and
\* medium variance is offered at exactly that multiplier.
HouseEdgeByRoundBand ==
    Offered =>
        LET edge == result.response.game_state.house_edge[1]
            offer == result.response.offer[1]
            r == query.round_num
            plain == /\ query.remaining_cards = <<1000000>>
                     /\ query.llm.sentiment = "neutral"
                     /\ query.llm.variance = "medium"
        IN  /\ r \in {1, 2} => edge = 35 /\ (plain => offer = 650000)
            /\ r \in {3, 4} => edge = 25 /\ (plain => offer = 750000)
            /\ r >= 5 => edge = 15 /\ (plain => offer = 850000)

\* an offer was made in a round above 5, at the late-round edge
LateRoundOffer ==
    /\ Offered
    /\ query.round_num > 5
    /\ query.remaining_cards = <<1000000>>
    /\ result.response.game_state.house_edge = Some(15)

\* C19: the sentiment multiplier is 1.05 for confident, 0.95 for desperate,
\* 1.00 for neutral and 0.90 for aggressive (seen on a single amount of
\* 1,000,000 in rounds 1-2 under medium variance), and under any other
\* label the pipeline does not raise and offers exactly what it offers
\* under neutral.
SentimentTableWithNeutralDefault ==
    LET s == query.llm.sentiment
        known == s \in {"confident", "desperate", "neutral", "aggressive"}
        plain == /\ query.remaining_cards = <<1000000>>
                 /\ query.round_num \in {1, 2}
                 /\ query.llm.variance = "medium"
    IN  /\ ( /\ result.ran = "process"
              /\ ~query.llm.classify.raises
              /\ IsOfferLabel(query.llm.classify.text)
              /\ query.remaining_cards # << >>
              /\ query.llm.offer_line.kind = "object" )
              => ~result.response.raises
        /\ (Offered /\ plain)
              => result.response.offer[1] =
                   CASE s = "confident" -> 682500
                     [] s = "desperate" -> 617500
                     [] s = "aggressive" -> 585000
                     [] OTHER -> 650000
        /\ (Offered /\ ~known)
              => result.response.offer =
                   Some(calculate_base_offer(query.remaining_cards, query.round_num,
                            "neutral", query.llm.variance).offer)

\* an offer was made under a label the table does not know
UnknownSentimentOffer ==
    /\ Offered
    /\ query.llm.sentiment = "excited"
    /\ query.remaining_cards = <<1000000>>
    /\ query.round_num = 1
    /\ query.llm.variance = "medium"
    /\ result.response.offer = Some(650000)

=============================================================================
